---- MODULE Spec2Model ----
(***************************************************************************)
(* Farmers delivery dashboard (src/app.py): the paginated fetch of the two *)
(* tables behind a 300 second cache, the reconciliation of farmers with    *)
(* traceability events, the filters and the certification summaries.       *)
(*                                                                         *)
(* Text values are sequences of one-character strings, so that strip,      *)
(* lower and join are computed character by character.  A nullable field   *)
(* is << >> (None / NaN) or <<v>> (the value v).  Weights and quotas are   *)
(* whole kilograms; a percentage is held in hundredths of a percent.       *)
(***************************************************************************)
EXTENDS Integers, Sequences, FiniteSets, TLC

\* ------------------------------------------------------------------ bounds
MaxRows == 3
MaxPage == 2
MaxWindows == 1
MaxFarmers == 2
MaxEvents == 2

\* ------------------------------------------------------- program constants
TTL == 300

\* ------------------------------------------------------------ text helpers
UpperChars ==
  <<"A","B","C","D","E","F","G","H","I","J","K","L","M",
    "N","O","P","Q","R","S","T","U","V","W","X","Y","Z">>

LowerChars ==
  <<"a","b","c","d","e","f","g","h","i","j","k","l","m",
    "n","o","p","q","r","s","t","u","v","w","x","y","z">>

Whitespace == {" ", "\t", "\n"}

\* the lower-case letter of each upper-case letter
ToLower ==
  [c \in {UpperChars[i] : i \in DOMAIN UpperChars} |->
     LowerChars[CHOOSE i \in DOMAIN UpperChars : UpperChars[i] = c]]

lower_char(c) == IF c \in DOMAIN ToLower THEN ToLower[c] ELSE c

str_lower(s) == [i \in 1..Len(s) |-> lower_char(s[i])]

RECURSIVE lstrip(_)
lstrip(s) ==
  IF s # << >> /\ Head(s) \in Whitespace THEN lstrip(Tail(s)) ELSE s

RECURSIVE rstrip(_)
rstrip(s) ==
  IF s # << >> /\ s[Len(s)] \in Whitespace
  THEN rstrip(SubSeq(s, 1, Len(s) - 1))
  ELSE s

str_strip(s) == rstrip(lstrip(s))

RECURSIVE str_join(_, _)
str_join(sep, parts) ==
  IF parts = << >> THEN << >>
  ELSE IF Len(parts) = 1 THEN parts[1]
  ELSE parts[1] \o sep \o str_join(sep, Tail(parts))

CommaSpace == <<",", " ">>
EmptyStr == << >>
Unknown == <<"U","n","k","n","o","w","n">>
All == <<"A","l","l">>

\* ---------------------------------------------------------- column helpers
None == << >>
Some(v) == <<v>>

Column(df, col) == [i \in 1..Len(df) |-> df[i][col]]

\* Series.dropna(): the non-null values, in order
dropna(x) ==
  LET kept == SelectSeq(x, LAMBDA v : v # None)
  IN  [i \in 1..Len(kept) |-> kept[i][1]]

\* Series.unique(): first occurrences, in order of appearance
RECURSIVE unique(_)
unique(x) ==
  IF x = << >> THEN << >>
  ELSE LET init == unique(SubSeq(x, 1, Len(x) - 1))
           last == x[Len(x)]
       IN  IF \E i \in DOMAIN init : init[i] = last
           THEN init
           ELSE Append(init, last)

RECURSIVE SumSeq(_)
SumSeq(x) == IF x = << >> THEN 0 ELSE Head(x) + SumSeq(Tail(x))

Elems(x) == {x[i] : i \in DOMAIN x}

\* ------------------------------------------------- reconciliation pipeline
\* variant: the ids are trimmed but keep their letter case
normalize_id_keep_case(id) == str_strip(id)

\* farmer_id: .astype(str).str.strip().str.lower(); ids are text already
normalize_id(id) == str_lower(str_strip(id))

standardize(df) ==
  [i \in 1..Len(df) |-> [df[i] EXCEPT !.farmer_id = normalize_id(@)]]

\* 'net_weight_kg': 'sum'  (NaN skipped, an all-NaN group sums to 0)
agg_sum(x) == SumSeq(dropna(x))

\* 'certification': lambda x: ', '.join([... x.dropna().unique() if strip != ''])
agg_certification(x) ==
  str_join(CommaSpace,
           SelectSeq(unique(dropna(x)), LAMBDA v : str_strip(v) # EmptyStr))

\* variant: the exporter of the first row of the group, null or not
agg_first_row(x) == IF x = << >> THEN None ELSE Head(x)

\* 'exporter': 'first'  (first non-null value of the group, else NaN)
agg_first(x) ==
  LET present == dropna(x)
  IN  IF present = << >> THEN None ELSE Some(Head(present))

group_rows(df, k) == SelectSeq(df, LAMBDA r : r.farmer_id = k)

\* trace_df.groupby('farmer_id').agg({...}): one entry per distinct key
groupby_agg(df) ==
  [k \in {df[i].farmer_id : i \in DOMAIN df} |->
     LET g == group_rows(df, k)
     IN  [net_weight_kg |-> agg_sum(Column(g, "net_weight_kg")),
          certification |-> agg_certification(Column(g, "certification")),
          exporter      |-> agg_first(Column(g, "exporter"))]]

\* .replace('', 'Unknown') on certification, .fillna('Unknown') on exporter
trace_agg(df) ==
  LET agg == groupby_agg(df)
  IN  [k \in DOMAIN agg |->
         [net_weight_kg |-> agg[k].net_weight_kg,
          certification |-> IF agg[k].certification = EmptyStr
                            THEN Unknown ELSE agg[k].certification,
          exporter      |-> IF agg[k].exporter = None
                            THEN Unknown ELSE agg[k].exporter[1]]]

\* farmers_df.merge(trace_agg, on='farmer_id', how='left'): NaN where unmatched
left_merge(left, agg) ==
  [i \in 1..Len(left) |->
     LET r == left[i]
         hit == r.farmer_id \in DOMAIN agg
     IN  [farmer_id     |-> r.farmer_id,
          cooperative   |-> r.cooperative,
          max_quota_kg  |-> r.max_quota_kg,
          net_weight_kg |-> IF hit THEN Some(agg[r.farmer_id].net_weight_kg) ELSE None,
          certification |-> IF hit THEN Some(agg[r.farmer_id].certification) ELSE None,
          exporter      |-> IF hit THEN Some(agg[r.farmer_id].exporter) ELSE None]]

fillna(v, dflt) == IF v = None THEN dflt ELSE v[1]

\* .round(2) on the exact quotient: round half to even of num / den, den > 0
\* (the binary rounding error of the float quotient is not modelled)
round_div(num, den) ==
  LET q == num \div den
      r == num % den
  IN  IF 2 * r < den THEN q
      ELSE IF 2 * r > den THEN q + 1
      ELSE IF q % 2 = 0 THEN q ELSE q + 1

\* net_weight_kg / max_quota_kg * 100 as IEEE division: x/NaN = NaN,
\* 0/0 = NaN, x/0 = inf for x > 0; .round(2) keeps NaN and inf
percentage(net, quota) ==
  IF quota = None THEN [kind |-> "nan", val |-> 0]
  ELSE IF quota[1] = 0
       THEN IF net = 0 THEN [kind |-> "nan", val |-> 0]
                       ELSE [kind |-> "inf", val |-> 0]
       ELSE [kind |-> "num", val |-> round_div(net * 10000, quota[1])]

\* .fillna(0) replaces NaN only
fillna_pct(p) == IF p.kind = "nan" THEN [kind |-> "num", val |-> 0] ELSE p

merge_summary(farmers, trace) ==
  LET m == left_merge(farmers, trace_agg(trace))
  IN  [i \in 1..Len(m) |->
         LET net == fillna(m[i].net_weight_kg, 0)
         IN  [farmer_id     |-> m[i].farmer_id,
              cooperative   |-> m[i].cooperative,
              max_quota_kg  |-> m[i].max_quota_kg,
              net_weight_kg |-> net,
              certification |-> fillna(m[i].certification, Unknown),
              exporter      |-> fillna(m[i].exporter, Unknown),
              delivery_percentage |->
                fillna_pct(percentage(net, m[i].max_quota_kg))]]

\* ------------------------------------------------- filters and summaries
\* ['All'] + sorted(merged_df[col].unique().tolist()): the selectable values
choices(df, col) == {All} \cup {df[i][col] : i \in DOMAIN df}

\* filtered_df: each filter applies unless its choice is 'All'
apply_filters(df, coop, exp) ==
  SelectSeq(df, LAMBDA r : /\ (coop # All => r.cooperative = coop)
                           /\ (exp # All => r.exporter = exp))

\* one event joined to the filtered rows that carry its farmer_id
event_matches(e, right) ==
  LET m == SelectSeq(right, LAMBDA r : r.farmer_id = e.farmer_id)
  IN  IF m = << >>
      THEN << [farmer_id |-> e.farmer_id, net_weight_kg |-> e.net_weight_kg,
               certification |-> e.certification, exporter |-> e.exporter,
               cooperative |-> None] >>
      ELSE [j \in 1..Len(m) |->
              [farmer_id |-> e.farmer_id, net_weight_kg |-> e.net_weight_kg,
               certification |-> e.certification, exporter |-> e.exporter,
               cooperative |-> Some(m[j].cooperative)]]

\* events.merge(filtered_df[['farmer_id', 'cooperative']], how='left')
RECURSIVE merge_cooperative(_, _)
merge_cooperative(events, right) ==
  IF events = << >> THEN << >>
  ELSE event_matches(Head(events), right)
         \o merge_cooperative(Tail(events), right)

\* trace_df[trace_df['farmer_id'].isin(filtered_farmer_ids)]
isin_filtered(trace, filtered) ==
  LET filtered_farmer_ids == {filtered[i].farmer_id : i \in DOMAIN filtered}
  IN  SelectSeq(trace, LAMBDA e : e.farmer_id \in filtered_farmer_ids)

\* df.groupby([a, b])['net_weight_kg'].sum(): rows with a null key are dropped
groupby2_sum(df, a, b) ==
  LET kept == SelectSeq(df, LAMBDA r : r[a] # None /\ r[b] # None)
      keys == {<<kept[i][a][1], kept[i][b][1]>> : i \in DOMAIN kept}
  IN  {[key |-> k,
        net_weight_kg |->
          agg_sum(Column(SelectSeq(kept, LAMBDA r : <<r[a][1], r[b][1]>> = k),
                         "net_weight_kg"))] : k \in keys}

coop_cert_summary(trace, filtered) ==
  groupby2_sum(merge_cooperative(isin_filtered(trace, filtered), filtered),
               "cooperative", "certification")

exp_cert_summary(trace, filtered) ==
  groupby2_sum(isin_filtered(trace, filtered), "exporter", "certification")

\* ------------------------------------------------------------ data source
\* farmers rows: farmer_id, cooperative, max_quota_kg (nullable); two
\* spellings of one id, a zero quota, a missing quota, a quota under the
\* delivered weight
FarmerCatalogue ==
  << [farmer_id |-> <<"F","1">>,         cooperative |-> <<"A">>, max_quota_kg |-> Some(30)],
     [farmer_id |-> <<" ","f","1"," ">>, cooperative |-> <<"B">>, max_quota_kg |-> Some(0)],
     [farmer_id |-> <<"f","2">>,         cooperative |-> <<"A">>, max_quota_kg |-> None],
     [farmer_id |-> <<"f","3">>,         cooperative |-> <<"B">>, max_quota_kg |-> Some(8)] >>

\* traceability rows: farmer_id, net_weight_kg, certification, exporter
\* (the last three nullable); three spellings of one id, a missing weight,
\* a missing, an empty and a blank certification, a missing exporter, an
\* event of no registered farmer
EventCatalogue ==
  << [farmer_id |-> <<"F","1">>, net_weight_kg |-> Some(10),
      certification |-> Some(<<"O">>), exporter |-> Some(<<"X">>)],
     [farmer_id |-> <<" ","f","1"," ">>, net_weight_kg |-> Some(5),
      certification |-> Some(<<"F">>), exporter |-> None],
     [farmer_id |-> <<"f","1">>, net_weight_kg |-> None,
      certification |-> Some(<<" ">>), exporter |-> Some(<<"Y">>)],
     [farmer_id |-> <<"f","2">>, net_weight_kg |-> Some(5),
      certification |-> None, exporter |-> Some(<<"Y">>)],
     [farmer_id |-> <<"f","2">>, net_weight_kg |-> Some(10),
      certification |-> Some(EmptyStr), exporter |-> None],
     [farmer_id |-> <<"F","1">>, net_weight_kg |-> Some(5),
      certification |-> Some(<<"O">>), exporter |-> Some(<<"Y">>)],
     [farmer_id |-> <<"f","9">>, net_weight_kg |-> Some(10),
      certification |-> Some(<<"O">>), exporter |-> Some(<<"X">>)] >>

\* the first n rows of a table that repeats its catalogue
Prefix(cat, n) == [k \in 1..n |-> cat[((k - 1) % Len(cat)) + 1]]

\* every table of at most n catalogue rows
Tables(cat, n) == UNION {[1..k -> Elems(cat)] : k \in 0..n}

TableNames == {"farmers", "traceability"}

\* the instants the clock takes: the edges of each TTL window
Instants == {k * TTL + d : k \in 0..MaxWindows, d \in {0, 1, TTL - 1}}

\* ------------------------------------------------------------------ state
VARIABLES
  db,            \* the remote tables, by name
  page_size,     \* the page_size argument of load_data_batched (1000 when omitted)
  clock,         \* seconds
  cache,         \* st.cache_data entry of load_data: None or Some([ts, value])
  pc,            \* position of the script run
  table_name,    \* argument of the running load_data_batched
  offset,
  all_rows,
  farmers_df,
  trace_df,
  merged_df,
  selected_coop,
  selected_exporter,
  filtered_df,
  cert_coop_summary,
  cert_exp_summary,
  requests,      \* history: the ranges requested in this run, by table
  failed,        \* history: tables whose fetch failed when the tables were loaded
  invoked_at,    \* history: clock at the call of load_data in this run
  prev_fetch     \* history: ts of the cache entry found at that call, or -1

source == <<db, page_size>>
fetchv == <<table_name, offset, all_rows>>
viewv  == <<merged_df, selected_coop, selected_exporter, filtered_df,
            cert_coop_summary, cert_exp_summary>>
vars   == <<db, page_size, clock, cache, pc, table_name, offset, all_rows,
            farmers_df, trace_df, merged_df, selected_coop, selected_exporter,
            filtered_df, cert_coop_summary, cert_exp_summary,
            requests, failed, invoked_at, prev_fetch>>

NoRequests == [t \in TableNames |-> << >>]

\* pd.DataFrame(rows): one row per record; no rows, no columns
DataFrame(rows) == rows

\* .range(first, last).execute().data: rows first..last, counted from 0
range(table, first, last) ==
  IF first >= Len(table) THEN << >>
  ELSE SubSeq(table, first + 1, IF last + 1 < Len(table) THEN last + 1 ELSE Len(table))

range_last(first, size) == first + size - 1

\* variant: the next page starts on the last row of this one
next_offset_overlap(first, size) == first + size - 1

next_offset(first, size) == first + size

\* variant: a failed fetch returns the rows it already has
failed_frame_partial(rows) == DataFrame(rows)

\* the frame returned when a page is None or the query raised
failed_frame(rows) == DataFrame(<< >>)

\* variant: the entry is still served at the age of exactly TTL
cache_valid_inclusive(entry, now) == entry # None /\ now - entry[1].ts <= TTL

\* ttl=300: the entry is served while it is younger than TTL
cache_valid(entry, now) == entry # None /\ now - entry[1].ts < TTL

ScriptStart ==
  /\ pc = "idle"
  /\ farmers_df = << >>
  /\ trace_df = << >>
  /\ table_name = "farmers"
  /\ offset = 0
  /\ all_rows = << >>
  /\ merged_df = << >>
  /\ selected_coop = All
  /\ selected_exporter = All
  /\ filtered_df = << >>
  /\ cert_coop_summary = {}
  /\ cert_exp_summary = {}
  /\ requests = NoRequests
  /\ invoked_at = 0
  /\ prev_fetch = -1

Init ==
  /\ \E nf \in 0..MaxRows, nt \in 0..MaxRows :
       db = [farmers      |-> Prefix(FarmerCatalogue, nf),
             traceability |-> Prefix(EventCatalogue, nt)]
  /\ page_size \in 1..MaxPage
  /\ clock = 0
  /\ cache = None
  /\ failed = {}
  /\ ScriptStart

\* ---------------------------------------------------------------- load_data
\* load_data() served from the cache: the body does not run
CacheHit ==
  /\ pc = "idle"
  /\ cache_valid(cache, clock)
  /\ farmers_df' = cache[1].farmers_df
  /\ trace_df' = cache[1].trace_df
  /\ pc' = "loaded"
  /\ requests' = NoRequests
  /\ invoked_at' = clock
  /\ prev_fetch' = cache[1].ts
  /\ UNCHANGED <<source, clock, cache, fetchv, viewv, failed>>

\* load_data() runs its body: load_data_batched('farmers') starts
CacheMiss ==
  /\ pc = "idle"
  /\ ~cache_valid(cache, clock)
  /\ pc' = "fetching"
  /\ table_name' = "farmers"
  /\ offset' = 0
  /\ all_rows' = << >>
  /\ requests' = NoRequests
  /\ failed' = {}
  /\ invoked_at' = clock
  /\ prev_fetch' = IF cache = None THEN -1 ELSE cache[1].ts
  /\ UNCHANGED <<source, clock, cache, farmers_df, trace_df, viewv>>

\* load_data_batched returns df: the next table starts, or load_data returns
\* and its value is stored in the cache
Return(df) ==
  IF table_name = "farmers"
  THEN /\ farmers_df' = df
       /\ table_name' = "traceability"
       /\ offset' = 0
       /\ all_rows' = << >>
       /\ UNCHANGED <<pc, cache, trace_df>>
  ELSE /\ trace_df' = df
       /\ pc' = "loaded"
       /\ cache' = Some([ts |-> clock, farmers_df |-> farmers_df, trace_df |-> df])
       /\ UNCHANGED <<farmers_df, fetchv>>

Request ==
  requests' = [requests EXCEPT ![table_name] =
                 Append(@, <<offset, range_last(offset, page_size)>>)]

\* one turn of the while loop whose query answers with a list of rows
FetchPage ==
  /\ pc = "fetching"
  /\ Request
  /\ LET rows == range(db[table_name], offset, range_last(offset, page_size))
     IN  IF rows = << >>
         THEN Return(DataFrame(all_rows))
         ELSE /\ all_rows' = all_rows \o rows
              /\ offset' = next_offset(offset, page_size)
              /\ UNCHANGED <<pc, cache, table_name, farmers_df, trace_df>>
  /\ UNCHANGED <<source, clock, viewv, failed, invoked_at, prev_fetch>>

\* result.data is None
FetchNull ==
  /\ pc = "fetching"
  /\ Request
  /\ failed' = failed \cup {table_name}
  /\ Return(failed_frame(all_rows))
  /\ UNCHANGED <<source, clock, viewv, invoked_at, prev_fetch>>

\* the query raises
FetchRaise ==
  /\ pc = "fetching"
  /\ Request
  /\ failed' = failed \cup {table_name}
  /\ Return(failed_frame(all_rows))
  /\ UNCHANGED <<source, clock, viewv, invoked_at, prev_fetch>>

\* -------------------------------------------------------- top-level script
\* lines 83-106; a frame without rows has no farmer_id column: KeyError,
\* caught by the except of the script
Reconcile ==
  /\ pc = "loaded"
  /\ IF farmers_df = << >>
     THEN /\ pc' = "error"
          /\ UNCHANGED <<farmers_df, trace_df, merged_df>>
     ELSE IF trace_df = << >>
     THEN /\ pc' = "error"
          /\ farmers_df' = standardize(farmers_df)
          /\ UNCHANGED <<trace_df, merged_df>>
     ELSE /\ pc' = "reconciled"
          /\ farmers_df' = standardize(farmers_df)
          /\ trace_df' = standardize(trace_df)
          /\ merged_df' = merge_summary(standardize(farmers_df), standardize(trace_df))
  /\ UNCHANGED <<source, clock, cache, fetchv, selected_coop, selected_exporter,
                 filtered_df, cert_coop_summary, cert_exp_summary,
                 requests, failed, invoked_at, prev_fetch>>

\* lines 111-227 with the two sidebar choices
Render(coop, exp) ==
  /\ pc = "reconciled"
  /\ coop \in choices(merged_df, "cooperative")
  /\ exp \in choices(merged_df, "exporter")
  /\ selected_coop' = coop
  /\ selected_exporter' = exp
  /\ filtered_df' = apply_filters(merged_df, coop, exp)
  /\ cert_coop_summary' = coop_cert_summary(trace_df, apply_filters(merged_df, coop, exp))
  /\ cert_exp_summary' = exp_cert_summary(trace_df, apply_filters(merged_df, coop, exp))
  /\ pc' = "rendered"
  /\ UNCHANGED <<source, clock, cache, fetchv, farmers_df, trace_df, merged_df,
                 requests, failed, invoked_at, prev_fetch>>

\* a user interaction runs the script again from the top
Rerun ==
  /\ pc \in {"rendered", "error"}
  /\ pc' = "idle"
  /\ farmers_df' = << >>
  /\ trace_df' = << >>
  /\ table_name' = "farmers"
  /\ offset' = 0
  /\ all_rows' = << >>
  /\ merged_df' = << >>
  /\ selected_coop' = All
  /\ selected_exporter' = All
  /\ filtered_df' = << >>
  /\ cert_coop_summary' = {}
  /\ cert_exp_summary' = {}
  /\ requests' = NoRequests
  /\ invoked_at' = 0
  /\ prev_fetch' = -1
  /\ UNCHANGED <<source, clock, cache, failed>>

\* time passes between two runs of the script and while pages are fetched
Tick ==
  /\ pc \in {"idle", "fetching"}
  /\ \E t \in Instants : t > clock /\ clock' = t
  /\ UNCHANGED <<source, cache, pc, fetchv, farmers_df, trace_df, viewv,
                 requests, failed, invoked_at, prev_fetch>>

Next ==
  \/ CacheHit
  \/ CacheMiss
  \/ FetchPage
  \/ FetchNull
  \/ FetchRaise
  \/ Reconcile
  \/ \E coop \in choices(merged_df, "cooperative"),
        exp \in choices(merged_df, "exporter") : Render(coop, exp)
  \/ Rerun
  \/ Tick

Spec == Init /\ [][Next]_vars

\* ------------------------------------------- the pipeline over any tables
\* the script just after load_data() returned two tables out of the cache
InitPipeline ==
  /\ \E f \in Tables(FarmerCatalogue, MaxFarmers),
        t \in Tables(EventCatalogue, MaxEvents) :
       /\ db = [farmers |-> f, traceability |-> t]
       /\ cache = Some([ts |-> 0, farmers_df |-> f, trace_df |-> t])
       /\ farmers_df = f
       /\ trace_df = t
  /\ page_size = 1
  /\ clock = 0
  /\ failed = {}
  /\ pc = "loaded"
  /\ table_name = "traceability"
  /\ offset = 0
  /\ all_rows = << >>
  /\ merged_df = << >>
  /\ selected_coop = All
  /\ selected_exporter = All
  /\ filtered_df = << >>
  /\ cert_coop_summary = {}
  /\ cert_exp_summary = {}
  /\ requests = NoRequests
  /\ invoked_at = 0
  /\ prev_fetch = 0

\* the reconciliation alone
PipelineSpec == InitPipeline /\ [][Reconcile]_vars

\* the reconciliation, then the filters and the summaries
NextView ==
  \/ Reconcile
  \/ \E coop \in choices(merged_df, "cooperative"),
        exp \in choices(merged_df, "exporter") : Render(coop, exp)

ViewSpec == InitPipeline /\ [][NextView]_vars

\* =================================================================== claims
Ceil(n, p) == (n + p - 1) \div p

PageRanges(m, p) == [i \in 1..m |-> <<(i - 1) * p, (i - 1) * p + p - 1>>]

Df(t) == IF t = "farmers" THEN farmers_df ELSE trace_df

\* load_data_batched(t) ran in this script run and has returned
FetchDone(t) ==
  /\ requests[t] # << >>
  /\ \/ pc = "loaded"
     \/ pc = "fetching" /\ t = "farmers" /\ table_name = "traceability"

\* the cache entry found by load_data() was younger than TTL
WithinWindow == prev_fetch >= 0 /\ invoked_at - prev_fetch < TTL

\* the tables as load_data() returned them, before farmer_id is standardized
RawFarmers == cache[1].farmers_df
RawEvents == cache[1].trace_df

\* the summary has been built
Summarized == pc \in {"reconciled", "rendered"}

\* trim and lower-case, written from the positions of the non-blank characters
Canon(s) ==
  LET keep == {i \in DOMAIN s : s[i] \notin Whitespace}
  IN  IF keep = {} THEN << >>
      ELSE LET lo == CHOOSE i \in keep : \A j \in keep : i <= j
               hi == CHOOSE i \in keep : \A j \in keep : j <= i
           IN  str_lower(SubSeq(s, lo, hi))

Blank(v) == \A i \in DOMAIN v : v[i] \in Whitespace

\* the events of the farmer of summary row i, in table order
EventsOf(i) ==
  SelectSeq(RawEvents, LAMBDA e : Canon(e.farmer_id) = Canon(RawFarmers[i].farmer_id))

TotalWeight(ev) ==
  SumSeq([k \in 1..Len(ev) |->
            IF ev[k].net_weight_kg = None THEN 0 ELSE ev[k].net_weight_kg[1]])

\* the certifications that pass Keep, each at its first occurrence
FirstSeen(ev, Keep(_)) ==
  LET at == {k \in DOMAIN ev :
               /\ ev[k].certification # None
               /\ Keep(ev[k].certification[1])
               /\ \A j \in 1..(k - 1) : ev[j].certification # ev[k].certification}
      picked == SelectSeq([k \in 1..Len(ev) |-> k], LAMBDA k : k \in at)
  IN  [n \in 1..Len(picked) |-> ev[picked[n]].certification[1]]

CertificationOf(ev, Keep(_)) ==
  IF FirstSeen(ev, Keep) = << >> THEN Unknown
  ELSE str_join(CommaSpace, FirstSeen(ev, Keep))

ExporterOf(ev) ==
  LET at == {k \in DOMAIN ev : ev[k].exporter # None}
  IN  IF at = {} THEN Unknown
      ELSE ev[CHOOSE k \in at : \A j \in at : k <= j].exporter[1]

RECURSIVE SumBuckets(_)
SumBuckets(S) ==
  IF S = {} THEN 0
  ELSE LET b == CHOOSE x \in S : TRUE
       IN  b.net_weight_kg + SumBuckets(S \ {b})

\* C1: while a table is fetched, page i is requested at [i*P, i*P + P - 1]
\* for i = 0, 1, 2, ... in that order and never more than ceil(N/P) + 1
\* pages are requested; a fetch without failure returns exactly the N rows
\* of the table in source order after ceil(N/P) or ceil(N/P) + 1 requests.
C1_Pagination ==
  \A t \in TableNames :
    LET N == Len(db[t])
        m == Len(requests[t])
    IN  /\ pc \in {"fetching", "loaded"} =>
             /\ m <= Ceil(N, page_size) + 1
             /\ requests[t] = PageRanges(m, page_size)
        /\ (FetchDone(t) /\ t \notin failed) =>
             /\ Df(t) = db[t]
             /\ m \in {Ceil(N, page_size), Ceil(N, page_size) + 1}

\* a fetch of several full pages (N an exact multiple of P) has completed
C1_Witness ==
  /\ pc = "loaded"
  /\ failed = {}
  /\ Len(db["farmers"]) = 2 * page_size
  /\ Len(requests["farmers"]) = 3
  /\ farmers_df = db["farmers"]

\* C2: every summary row with max_quota_kg 0 or absent has
\* delivery_percentage 0 whatever its net_weight_kg; with max_quota_kg > 0
\* it is round(net_weight_kg / max_quota_kg * 100, 2), not clamped.
C2_Percentage ==
  Summarized =>
    \A i \in DOMAIN merged_df :
      LET r == merged_df[i]
      IN  IF r.max_quota_kg = None \/ r.max_quota_kg[1] = 0
          THEN r.delivery_percentage = [kind |-> "num", val |-> 0]
          ELSE r.delivery_percentage =
                 [kind |-> "num",
                  val |-> round_div(r.net_weight_kg * 10000, r.max_quota_kg[1])]

\* C3: the frame returned for a table whose fetch failed differs from the
\* frame returned by a successful fetch of a table without rows.
C3_FailureDistinct ==
  pc = "loaded" => \A t \in failed : Df(t) # DataFrame(<< >>)

\* C4: every row of the farmers table has exactly one row in the summary,
\* with zero, one or many events: the summary exists, has as many rows as
\* the farmers table, row for row, and an unmatched farmer has
\* net_weight_kg 0, certification "Unknown", exporter "Unknown".
C4_OneRowPerFarmer ==
  (pc \in {"reconciled", "rendered", "error"} /\ failed = {}) =>
    \A i \in DOMAIN RawFarmers :
      /\ pc # "error"
      /\ Len(merged_df) = Len(RawFarmers)
      /\ merged_df[i].farmer_id = Canon(RawFarmers[i].farmer_id)
      /\ merged_df[i].cooperative = RawFarmers[i].cooperative
      /\ EventsOf(i) = << >> =>
           /\ merged_df[i].net_weight_kg = 0
           /\ merged_df[i].certification = Unknown
           /\ merged_df[i].exporter = Unknown

\* the part of C4 that the merge itself keeps: once the summary is built it
\* has one row per farmers row
MergeKeepsFarmers ==
  Summarized =>
    /\ Len(merged_df) = Len(RawFarmers)
    /\ \A i \in DOMAIN RawFarmers :
         /\ merged_df[i].farmer_id = Canon(RawFarmers[i].farmer_id)
         /\ merged_df[i].cooperative = RawFarmers[i].cooperative
         /\ EventsOf(i) = << >> =>
              /\ merged_df[i].net_weight_kg = 0
              /\ merged_df[i].certification = Unknown
              /\ merged_df[i].exporter = Unknown

\* C5 as stated: the summary never holds two rows whose farmer_id is equal
\* after trim and lower-case.
C5_SingleRowPerId ==
  Summarized =>
    \A i, j \in DOMAIN merged_df :
      i # j => Canon(merged_df[i].farmer_id) # Canon(merged_df[j].farmer_id)

\* C5 amended: spellings of a farmer_id that differ only in letter case or
\* surrounding whitespace are one key: every farmers row is one summary row
\* under the trimmed lower-case id and carries the weight of all the events
\* of every spelling, so two summary rows share a key exactly when two
\* farmers rows do, and then they carry the same aggregates.
C5_SpellingsMerge ==
  Summarized =>
    /\ Len(merged_df) = Len(RawFarmers)
    /\ \A i \in DOMAIN merged_df :
         /\ merged_df[i].farmer_id = Canon(RawFarmers[i].farmer_id)
         /\ merged_df[i].net_weight_kg = TotalWeight(EventsOf(i))
    /\ \A i, j \in DOMAIN merged_df :
         Canon(RawFarmers[i].farmer_id) = Canon(RawFarmers[j].farmer_id) =>
           /\ merged_df[i].farmer_id = merged_df[j].farmer_id
           /\ merged_df[i].net_weight_kg = merged_df[j].net_weight_kg
           /\ merged_df[i].certification = merged_df[j].certification
           /\ merged_df[i].exporter = merged_df[j].exporter

\* a farmer whose two events are spelled differently from each other, one of
\* them differently from the farmers row, adds both weights
C5_Witness ==
  /\ pc = "reconciled"
  /\ Len(RawEvents) = 2
  /\ RawEvents[1].farmer_id # RawEvents[2].farmer_id
  /\ \E i \in DOMAIN RawFarmers :
       /\ Len(EventsOf(i)) = 2
       /\ RawFarmers[i].farmer_id # RawEvents[2].farmer_id
       /\ merged_df[i].net_weight_kg = 15

\* C6: the (cooperative, certification) buckets, the (exporter,
\* certification) buckets and the filtered summary all add up to the same
\* net_weight_kg.
C6_Conservation ==
  pc = "rendered" =>
    /\ SumBuckets(cert_coop_summary) = SumBuckets(cert_exp_summary)
    /\ SumBuckets(cert_coop_summary) = SumSeq(Column(filtered_df, "net_weight_kg"))

\* C7: a call of load_data less than TTL seconds after the cached value was
\* stored returns that value and requests no page; any other call requests
\* pages of both tables.
C7_TimeMemo ==
  pc = "loaded" =>
    IF WithinWindow
    THEN /\ requests = NoRequests
         /\ cache # None
         /\ cache[1].ts = prev_fetch
         /\ farmers_df = cache[1].farmers_df
         /\ trace_df = cache[1].trace_df
    ELSE /\ requests["farmers"] # << >>
         /\ requests["traceability"] # << >>
         /\ cache # None
         /\ cache[1].ts >= invoked_at

\* the call made exactly TTL seconds after the last fetch fetched again
C7_Witness ==
  /\ pc = "loaded"
  /\ prev_fetch >= 0
  /\ invoked_at - prev_fetch = TTL
  /\ requests["farmers"] # << >>
  /\ requests["traceability"] # << >>
  /\ farmers_df = db["farmers"]
  /\ Len(farmers_df) > 0

\* C8: the script reaches its error branch only after a fetch error; tables
\* without rows, successfully fetched, give a summary.
C8_EmptyTableNoError ==
  pc = "error" => failed # {}

\* C9 as stated: certification joins the distinct non-empty values.
C9_AggregatesNonEmpty ==
  Summarized =>
    \A i \in DOMAIN merged_df :
      EventsOf(i) # << >> =>
        /\ merged_df[i].net_weight_kg = TotalWeight(EventsOf(i))
        /\ merged_df[i].certification =
             CertificationOf(EventsOf(i), LAMBDA v : v # EmptyStr)
        /\ merged_df[i].exporter = ExporterOf(EventsOf(i))

\* C9 amended: for every farmer with an event, net_weight_kg is the sum of
\* the weights (missing as 0), certification joins with ", " the distinct
\* values that are not blank (empty or whitespace only) in first-seen order,
\* or is "Unknown", and exporter is the first non-null one, or "Unknown".
C9_Aggregates ==
  Summarized =>
    \A i \in DOMAIN merged_df :
      EventsOf(i) # << >> =>
        /\ merged_df[i].net_weight_kg = TotalWeight(EventsOf(i))
        /\ merged_df[i].certification =
             CertificationOf(EventsOf(i), LAMBDA v : ~Blank(v))
        /\ merged_df[i].exporter = ExporterOf(EventsOf(i))

\* a farmer with two events: the first has no exporter, the certifications
\* differ and both are kept
C9_Witness ==
  /\ pc = "reconciled"
  /\ \E i \in DOMAIN merged_df :
       /\ Len(EventsOf(i)) = 2
       /\ EventsOf(i)[1].exporter = None
       /\ merged_df[i].exporter = <<"X">>
       /\ merged_df[i].certification = <<"F", ",", " ", "O">>
       /\ merged_df[i].net_weight_kg = 15

\* C10: when a page of a table failed, load_data returned all the same: the
\* table is empty whatever had been fetched, the other table was fetched,
\* the pair is cached, and a call within the window returns it again
\* without a request.
C10_FailureMemoized ==
  (pc = "loaded" /\ failed # {}) =>
    /\ \A t \in failed : Df(t) = << >>
    /\ \A t \in TableNames \ failed : Df(t) = db[t]
    /\ cache # None
    /\ cache[1].farmers_df = farmers_df
    /\ cache[1].trace_df = trace_df
    /\ WithinWindow <=> requests = NoRequests
    /\ ~WithinWindow => requests["traceability"] # << >>

\* a call served from the cache after the farmers fetch had failed on a
\* table that has rows
C10_Witness ==
  /\ pc = "loaded"
  /\ failed = {"farmers"}
  /\ requests = NoRequests
  /\ invoked_at > prev_fetch
  /\ Len(db["farmers"]) > 0
  /\ farmers_df = << >>
  /\ Len(trace_df) > 0

====
